---------------------------- MODULE Spec2Model ----------------------------
(***************************************************************************)
(* A model of src/src/3p-frame.js: the postMessage codec                   *)
(* (serializeMessage, deserializeMessage, isAmpMessage), the bootstrap URL *)
(* resolver (getBootstrapBaseUrl and the functions it calls), the sentinel *)
(* generator (generateSentinel) and the iframe factory (getIframe).        *)
(*                                                                         *)
(* A JavaScript string is a sequence of one-character strings, so that     *)
(* indexOf, substr, JSON.stringify and JSON.parse are computed character   *)
(* by character.                                                           *)
(***************************************************************************)
EXTENDS Integers, Sequences, FiniteSets, TLC

VARIABLES
    wire,       \* codec: the value travelling on the postMessage channel
    sent,       \* codec: the serializeMessage call behind `wire`, if any
    last,       \* codec: the last codec call and what it returned
    count,                      \* `count`: frames created, by type
    overrideBootstrapBaseUrl,   \* `overrideBootstrapBaseUrl`
    bootstrapBaseUrl,           \* win.bootstrapBaseUrl, by window
    meta,       \* content of <meta name="amp-3p-iframe-src">, by window
    mode,       \* getMode() and urls.localDev
    call,       \* resolver: the last call and what it returned
    parent,     \* win.parent, by window
    walk        \* generateSentinel: the call in progress and its locals

codecVars == <<wire, sent, last>>
resolverVars == <<count, overrideBootstrapBaseUrl, bootstrapBaseUrl, meta, mode, call>>
sentinelVars == <<walk>>
vars == <<codecVars, resolverVars, sentinelVars, parent>>
\* What each part of the file leaves alone.
notCodec == <<resolverVars, sentinelVars, parent>>
notResolver == <<codecVars, sentinelVars, parent>>
notSentinel == <<codecVars, resolverVars, parent>>

(***************************************************************************)
(* Bounds of the model.                                                    *)
(***************************************************************************)
\* Longest sentinel argument handed to serializeMessage.
MaxSentinelLen == 2
\* Longest arbitrary payload put on the channel behind the 'amp-' prefix.
MaxPayloadLen == 4
\* Longest arbitrary head of a string that other code puts on the channel.
MaxForeignLen == 2
\* Most characters a truncation removes from the end of a serialized message.
MaxCut == 2
\* Most frames of one type that getIframe creates between two resets.
MaxCount == 2
\* Number of windows in the frame hierarchies generateSentinel walks.
MaxFrames == 4

(***************************************************************************)
(* JavaScript values.  A value on the channel is [kind, chars]; chars is   *)
(* the text of a string and <<>> for every other kind of value.            *)
(***************************************************************************)
JsString(cs) == [kind |-> "string", chars |-> cs]
JsOther(k) == [kind |-> k, chars |-> <<>>]
JsNull == JsOther("null")
JsUndefined == JsOther("undefined")

\* A JSON value: a string or a number (s is its text), null, or an object
\* (o is its sequence of <<key, value>> members in insertion order).
JNull == [t |-> "null", s |-> <<>>, o |-> <<>>]
JStr(cs) == [t |-> "string", s |-> cs, o |-> <<>>]
JNum(cs) == [t |-> "number", s |-> cs, o |-> <<>>]
JObj(members) == [t |-> "object", s |-> <<>>, o |-> members]

HasKey(members, k) == \E i \in DOMAIN members : members[i][1] = k
Get(members, k) == members[CHOOSE i \in DOMAIN members : members[i][1] = k][2]
\* obj[k] = v: an existing key keeps its place, a new key goes last.
Put(members, k, v) ==
    IF HasKey(members, k)
    THEN [i \in DOMAIN members |->
            IF members[i][1] = k THEN <<k, v>> ELSE members[i]]
    ELSE Append(members, <<k, v>>)

(***************************************************************************)
(* String.prototype.indexOf and substr.  Positions are 0-based as in       *)
(* JavaScript; IndexOf is -1 when the pattern does not occur.              *)
(***************************************************************************)
MatchesAt(s, pat, p) ==
    /\ p + Len(pat) <= Len(s)
    /\ \A j \in 1..Len(pat) : s[p + j] = pat[j]
IndexOf(s, pat) ==
    IF \E p \in 0..Len(s) : MatchesAt(s, pat, p)
    THEN CHOOSE p \in 0..Len(s) :
            /\ MatchesAt(s, pat, p)
            /\ \A q \in 0..(p - 1) : ~MatchesAt(s, pat, q)
    ELSE -1
Substr(s, start) == SubSeq(s, start + 1, Len(s))

(***************************************************************************)
(* JSON.stringify of the values above.                                     *)
(***************************************************************************)
RECURSIVE EscapeString(_)
EscapeString(cs) ==
    IF cs = <<>> THEN <<>>
    ELSE (IF Head(cs) \in {"\"", "\\"} THEN <<"\\", Head(cs)>> ELSE <<Head(cs)>>)
            \o EscapeString(Tail(cs))
Quote(cs) == <<"\"">> \o EscapeString(cs) \o <<"\"">>

RECURSIVE JSONStringify(_)
RECURSIVE StringifyMembers(_)
StringifyMembers(members) ==
    IF members = <<>> THEN <<>>
    ELSE Quote(members[1][1]) \o <<":">> \o JSONStringify(members[1][2])
            \o (IF Len(members) > 1 THEN <<",">> ELSE <<>>)
            \o StringifyMembers(Tail(members))
JSONStringify(v) ==
    CASE v.t = "string" -> Quote(v.s)
      [] v.t = "number" -> v.s
      [] v.t = "object" -> <<"{">> \o StringifyMembers(v.o) \o <<"}">>
      [] OTHER -> <<"n", "u", "l", "l">>

(***************************************************************************)
(* JSON.parse, by recursive descent over the grammar of objects, strings   *)
(* and numbers.  A parse step yields [ok, val, pos]: pos is the 1-based    *)
(* position after the value.  Arrays, the literals true/false/null,        *)
(* \uXXXX escapes and white space need characters ('[', 'u', 'l', ' ')     *)
(* that no string of the model contains.                                   *)
(***************************************************************************)
Digits == {"0", "1", "2", "3", "4", "5", "6", "7", "8", "9"}
Fail == [ok |-> FALSE, val |-> JNull, pos |-> 0]
Ok(v, p) == [ok |-> TRUE, val |-> v, pos |-> p]

Unescape(c) ==
    CASE c = "b" -> "<BS>" [] c = "f" -> "<FF>" [] c = "n" -> "<LF>"
      [] c = "r" -> "<CR>" [] c = "t" -> "<TAB>" [] OTHER -> c

\* The body of a string literal, from position i (after the opening quote).
RECURSIVE ParseChars(_, _, _)
ParseChars(m, i, acc) ==
    IF i > Len(m) THEN Fail
    ELSE IF m[i] = "\"" THEN Ok(JStr(acc), i + 1)
    ELSE IF m[i] = "\\"
         THEN IF i + 1 <= Len(m) /\ m[i + 1] \in {"\"", "\\", "/", "b", "f", "n", "r", "t"}
              THEN ParseChars(m, i + 2, Append(acc, Unescape(m[i + 1])))
              ELSE Fail
    ELSE ParseChars(m, i + 1, Append(acc, m[i]))

\* The position after the run of digits that starts at i (i itself if none).
RECURSIVE SkipDigits(_, _)
SkipDigits(m, i) ==
    IF i <= Len(m) /\ m[i] \in Digits THEN SkipDigits(m, i + 1) ELSE i

\* -? (0 | [1-9][0-9]*) (. [0-9]+)? ([eE] [+-]? [0-9]+)?
ParseNumber(m, i) ==
    LET j == IF m[i] = "-" THEN i + 1 ELSE i
        intEnd == IF j > Len(m) \/ m[j] \notin Digits THEN 0
                  ELSE IF m[j] = "0" THEN j + 1 ELSE SkipDigits(m, j)
        fracEnd == IF intEnd = 0 THEN 0
                   ELSE IF intEnd <= Len(m) /\ m[intEnd] = "."
                        THEN (IF SkipDigits(m, intEnd + 1) = intEnd + 1 THEN 0
                              ELSE SkipDigits(m, intEnd + 1))
                        ELSE intEnd
        expStart == IF fracEnd # 0 /\ fracEnd + 1 <= Len(m) /\ m[fracEnd + 1] \in {"+", "-"}
                    THEN fracEnd + 2 ELSE fracEnd + 1
        expEnd == IF fracEnd = 0 THEN 0
                  ELSE IF fracEnd <= Len(m) /\ m[fracEnd] \in {"e", "E"}
                       THEN (IF SkipDigits(m, expStart) = expStart THEN 0
                             ELSE SkipDigits(m, expStart))
                       ELSE fracEnd
    IN  IF expEnd = 0 THEN Fail ELSE Ok(JNum(SubSeq(m, i, expEnd - 1)), expEnd)

RECURSIVE ParseValue(_, _)
RECURSIVE ParseMembers(_, _, _)
\* The members of an object from position i, up to and including its '}'.
\* A repeated key keeps its first place and takes its last value.
ParseMembers(m, i, acc) ==
    IF i > Len(m) \/ m[i] # "\"" THEN Fail
    ELSE LET k == ParseChars(m, i + 1, <<>>) IN
         IF ~k.ok \/ k.pos > Len(m) \/ m[k.pos] # ":" THEN Fail
         ELSE LET v == ParseValue(m, k.pos + 1) IN
              IF ~v.ok \/ v.pos > Len(m) THEN Fail
              ELSE IF m[v.pos] = ","
                   THEN ParseMembers(m, v.pos + 1, Put(acc, k.val.s, v.val))
              ELSE IF m[v.pos] = "}"
                   THEN Ok(JObj(Put(acc, k.val.s, v.val)), v.pos + 1)
              ELSE Fail
ParseValue(m, i) ==
    IF i > Len(m) THEN Fail
    ELSE IF m[i] = "\"" THEN ParseChars(m, i + 1, <<>>)
    ELSE IF m[i] = "{"
         THEN IF i + 1 <= Len(m) /\ m[i + 1] = "}" THEN Ok(JObj(<<>>), i + 2)
              ELSE ParseMembers(m, i + 1, <<>>)
    ELSE IF m[i] \in Digits \cup {"-"} THEN ParseNumber(m, i)
    ELSE Fail

\* JSON.parse(text): the value, or a SyntaxError.
JSONParse(text) ==
    LET r == ParseValue(text, 1)
    IN  IF r.ok /\ r.pos = Len(text) + 1
        THEN [threw |-> FALSE, val |-> r.val]
        ELSE [threw |-> TRUE, val |-> JNull]

(***************************************************************************)
(* The message codec.                                                      *)
(***************************************************************************)
AMP_MESSAGE_PREFIX == <<"a", "m", "p", "-">>

SEND_EMBED_STATE == <<"s","e","n","d","-","e","m","b","e","d","-","s","t","a","t","e">>
EMBED_STATE == <<"e","m","b","e","d","-","s","t","a","t","e">>
SEND_EMBED_CONTEXT == <<"s","e","n","d","-","e","m","b","e","d","-","c","o","n","t","e","x","t">>
EMBED_CONTEXT == <<"e","m","b","e","d","-","c","o","n","t","e","x","t">>
SEND_INTERSECTIONS == <<"s","e","n","d","-","i","n","t","e","r","s","e","c","t","i","o","n","s">>
INTERSECTION == <<"i","n","t","e","r","s","e","c","t","i","o","n">>
EMBED_SIZE == <<"e","m","b","e","d","-","s","i","z","e">>
EMBED_SIZE_CHANGED == <<"e","m","b","e","d","-","s","i","z","e","-","c","h","a","n","g","e","d">>
EMBED_SIZE_DENIED == <<"e","m","b","e","d","-","s","i","z","e","-","d","e","n","i","e","d">>
SEND_POSITIONS == <<"s","e","n","d","-","p","o","s","i","t","i","o","n","s">>
POSITION == <<"p","o","s","i","t","i","o","n">>
MessageType ==
    {SEND_EMBED_STATE, EMBED_STATE, SEND_EMBED_CONTEXT, EMBED_CONTEXT,
     SEND_INTERSECTIONS, INTERSECTION, EMBED_SIZE, EMBED_SIZE_CHANGED,
     EMBED_SIZE_DENIED, SEND_POSITIONS, POSITION}

KeyType == <<"t", "y", "p", "e">>
KeySentinel == <<"s", "e", "n", "t", "i", "n", "e", "l">>

\* `rtvVersion || ''`: null, undefined and '' all yield ''.
OrEmpty(v) == IF v.kind = "string" THEN v.chars ELSE <<>>

\* message = data; message.type = type; message.sentinel = sentinel
AssignTypeAndSentinel(d, type, sentinel) ==
    Put(Put(d, KeyType, JStr(type)), KeySentinel, JStr(sentinel))

\* A faulty variant: Object.assign({type, sentinel}, data), the caller's fields last.
serializeMessage_DataLast(type, sentinel, d, rtvVersion) ==
    LET RECURSIVE Assign(_, _)
        Assign(target, source) ==
            IF source = <<>> THEN target
            ELSE Assign(Put(target, source[1][1], source[1][2]), Tail(source))
    IN  AMP_MESSAGE_PREFIX \o OrEmpty(rtvVersion)
            \o JSONStringify(JObj(Assign(AssignTypeAndSentinel(<<>>, type, sentinel), d)))

serializeMessage(type, sentinel, d, rtvVersion) ==
    AMP_MESSAGE_PREFIX \o OrEmpty(rtvVersion)
        \o JSONStringify(JObj(AssignTypeAndSentinel(d, type, sentinel)))

\* A faulty variant: the prefix is looked for anywhere in the message.
isAmpMessage_Anywhere(message) ==
    message.kind = "string" /\ IndexOf(message.chars, AMP_MESSAGE_PREFIX) # -1

isAmpMessage(message) ==
    message.kind = "string" /\ IndexOf(message.chars, AMP_MESSAGE_PREFIX) = 0

\* What a call of deserializeMessage does: whether it threw, what it
\* returned (JNull for null), and whether dev().error was called.
Returned(v, logged) == [threw |-> FALSE, ret |-> v, logged |-> logged]
Threw == [threw |-> TRUE, ret |-> JNull, logged |-> FALSE]
\* dev().error(tag, message) on the way to `result`: it logs and returns.
devError(result) == [result EXCEPT !.logged = TRUE]

\* A faulty variant: JSON.parse outside of any try block.
deserializeMessage_NoCatch(message) ==
    IF ~isAmpMessage(message) THEN Returned(JNull, FALSE)
    ELSE LET startPos == IndexOf(message.chars, <<"{">>) IN
         IF startPos = -1 THEN devError(Returned(JNull, FALSE))
         ELSE LET parsed == JSONParse(Substr(message.chars, startPos)) IN
              IF parsed.threw THEN Threw ELSE Returned(parsed.val, FALSE)

\* A faulty variant: the payload is taken to start right behind the prefix.
deserializeMessage_FixedStart(message) ==
    IF ~isAmpMessage(message) THEN Returned(JNull, FALSE)
    ELSE LET parsed == JSONParse(Substr(message.chars, Len(AMP_MESSAGE_PREFIX))) IN
         IF parsed.threw THEN devError(Returned(JNull, FALSE)) ELSE Returned(parsed.val, FALSE)

deserializeMessage(message) ==
    IF ~isAmpMessage(message) THEN Returned(JNull, FALSE)
    ELSE LET startPos == IndexOf(message.chars, <<"{">>) IN
         IF startPos = -1 THEN devError(Returned(JNull, FALSE))
         ELSE LET parsed == JSONParse(Substr(message.chars, startPos)) IN
              IF parsed.threw THEN devError(Returned(JNull, FALSE))
              ELSE Returned(parsed.val, FALSE)

(***************************************************************************)
(* The inputs of the codec.                                                *)
(***************************************************************************)
\* Every string over `alphabet` of length lo..hi.
StringsOver(alphabet, lo, hi) ==
    UNION {[1..n -> alphabet] : n \in lo..hi}

SentinelChars == {"1", "\""}
Sentinels == StringsOver(SentinelChars, 1, MaxSentinelLen)

\* JSON-safe `data` objects: empty; a string field; a number field and a
\* `type` field of the caller's own; a nested object whose string needs
\* escaping.
DataObjects ==
    { <<>>,
      << <<<<"a">>, JStr(<<"b", "{">>)>> >>,
      << <<<<"w">>, JNum(<<"1", "0">>)>>, <<KeyType, JStr(<<"x">>)>> >>,
      << <<<<"o">>, JObj(<< <<<<"k">>, JStr(<<"\\", "\"">>)>> >>)>> >> }

\* Version tokens: absent, empty, a runtime version, and one with a brace.
RtvVersions ==
    { JsNull, JsString(<<>>), JsString(<<"0", "1">>), JsString(<<"v", "{">>) }

PayloadChars == {"{", "}", "\"", ":", "1", "a"}
Payloads == StringsOver(PayloadChars, 0, MaxPayloadLen)

\* Strings of other code: an arbitrary head in front of a tail that is, or
\* is close to, a tagged message.
ForeignChars == {"a", "{"}
ForeignTails ==
    { <<>>, <<"a", "m", "p">>, <<"a", "m", "p", "-">>, <<"{", "}">>,
      <<"m", "p", "-", "{", "}">>, <<"a", "m", "p", "-", "{", "}">> }
ForeignStrings ==
    {head \o tail : head \in StringsOver(ForeignChars, 0, MaxForeignLen),
                    tail \in ForeignTails}
NonStrings == {JsOther("number"), JsOther("object"), JsOther("boolean"),
               JsNull, JsUndefined}

NoSent == [by |-> "none", type |-> <<>>, sentinel |-> <<>>, data |-> <<>>,
           rtvVersion |-> JsNull, message |-> <<>>]
NoCall == [op |-> "none", threw |-> FALSE, ret |-> JNull, logged |-> FALSE,
           bool |-> FALSE]

(***************************************************************************)
(* The codec's operations.  A behaviour starts with what arrives: either   *)
(* the arguments of a serializeMessage call the sender is about to make,   *)
(* or a value that other code has put on the channel (a prefix-tagged      *)
(* string with an arbitrary payload, an arbitrary string, a non-string).   *)
(***************************************************************************)
CodecInit ==
    /\ last = NoCall
    /\ \/ /\ wire = JsUndefined
          /\ \E type \in MessageType, sentinel \in Sentinels, d \in DataObjects,
                rtvVersion \in RtvVersions :
                sent = [by |-> "caller", type |-> type, sentinel |-> sentinel,
                        data |-> d, rtvVersion |-> rtvVersion, message |-> d]
       \/ /\ sent = NoSent
          /\ \/ \E payload \in Payloads :
                    wire = JsString(AMP_MESSAGE_PREFIX \o payload)
             \/ \E cs \in ForeignStrings : wire = JsString(cs)
             \/ wire \in NonStrings

\* serializeMessage(type, sentinel, data, rtvVersion), its result posted;
\* sent.message is the caller's data object after the call.
Serialize ==
    /\ sent.by = "caller"
    /\ wire' = JsString(serializeMessage(sent.type, sent.sentinel, sent.data,
                                         sent.rtvVersion))
    /\ sent' = [sent EXCEPT !.by = "serializeMessage",
                            !.message = AssignTypeAndSentinel(sent.data, sent.type,
                                                              sent.sentinel)]
    /\ last' = [NoCall EXCEPT !.op = "serializeMessage"]
    /\ UNCHANGED notCodec

\* The channel loses the last n characters of a serialized message.
Truncate(n) ==
    /\ sent.by = "serializeMessage"
    /\ n <= Len(wire.chars)
    /\ wire' = JsString(SubSeq(wire.chars, 1, Len(wire.chars) - n))
    /\ sent' = [sent EXCEPT !.by = "truncated"]
    /\ last' = [NoCall EXCEPT !.op = "truncate"]
    /\ UNCHANGED notCodec

Deserialize ==
    /\ sent.by # "caller"
    /\ LET r == deserializeMessage(wire)
       IN  last' = [op |-> "deserializeMessage", threw |-> r.threw, ret |-> r.ret,
                    logged |-> r.logged, bool |-> FALSE]
    /\ UNCHANGED <<wire, sent, notCodec>>

IsAmp ==
    /\ sent.by # "caller"
    /\ last' = [NoCall EXCEPT !.op = "isAmpMessage", !.bool = isAmpMessage(wire)]
    /\ UNCHANGED <<wire, sent, notCodec>>

CodecNext ==
    \/ Serialize
    \/ \E n \in 1..MaxCut : Truncate(n)
    \/ Deserialize
    \/ IsAmp

(***************************************************************************)
(* The bootstrap URL resolver and the iframe factory.                      *)
(*                                                                         *)
(* A URL is a string whose characters are grouped into tokens: the scheme, *)
(* "://", the host, ":" and the port, then the path, "?" and the query,    *)
(* each delimiter a token of its own.  No URL of the model names a default *)
(* port, so an origin is the text of scheme, host and port.                *)
(***************************************************************************)
Truthy(v) == v.kind = "string" /\ v.chars # <<>>

\* The windows of the resolver: a top-level page and a frame inside it.
Top == "top"
Child == "child"
Windows == {Top, Child}
NoWindow == ""

\* win.location.href: the top window is a published page on the default
\* port, its child frame a page served by a local server.
Location(win) ==
    IF win = Top THEN <<"https", "://", "pub.example", "/", "doc.html">>
    ELSE <<"https", "://", "localhost", ":", "8000", "/", "doc.html">>

\* What the document may declare as its custom bootstrap URL.
MetaContents ==
    { <<"https", "://", "cdn.example", "/", "b.html">>,
      <<"https", "://", "cdn.example", "/", "b.html", "?", "x">>,
      <<"https", "://", "pub.example", "/", "b.html">>,
      <<"https", "://", "localhost", ":", "8000", "/", "b.html">>,
      <<"http", "://", "cdn.example", "/", "b.html">> }
NoMeta == JsNull
\* The top page declares any of them or none; the local page declares
\* none or a URL of its own server.
MetasOf(win) ==
    IF win = Top THEN {NoMeta} \cup {JsString(u) : u \in MetaContents}
    ELSE {NoMeta, JsString(<<"https", "://", "localhost", ":", "8000", "/", "b.html">>)}

\* What a test may hand to setDefaultBootstrapBaseUrlForTesting.
Overrides ==
    { JsUndefined, JsString(<<>>),
      JsString(<<"http", "://", "test.example", "/", "fake.html">>) }

\* getMode().localDev, getMode().test, getMode().minified, urls.localDev
Mode(localDev, test, minified, urlsLocalDev) ==
    [localDev |-> localDev, test |-> test, minified |-> minified,
     urlsLocalDev |-> urlsLocalDev]
Modes ==
    { Mode(FALSE, FALSE, TRUE, FALSE),      \* production
      Mode(FALSE, TRUE, FALSE, FALSE),      \* unit test
      Mode(TRUE, FALSE, FALSE, FALSE),      \* local development
      Mode(TRUE, FALSE, TRUE, TRUE) }       \* local development, minified

\* What getRandom may return.
Randoms == {"17", "42"}
\* The frame types of <amp-ad type=...>.
Types == {"a9", "doubleclick"}
\* urls.thirdPartyFrameHost
ThirdPartyFrameHost == "ampproject.net"
Version == "$internalRuntimeVersion$"

\* parseUrl(url): the hostname and the origin.  A protocol-relative URL
\* takes the protocol of the document.
parseUrl(url) ==
    LET relative == url[1] = "//"
        at == IF relative THEN 2 ELSE 3
        hasPort == Len(url) >= at + 2 /\ url[at + 1] = ":" /\ url[at + 2] # ""
    IN  [hostname |-> url[at],
         origin |-> <<(IF relative THEN "https" ELSE url[1]), "://", url[at]>>
                        \o (IF hasPort THEN <<":", url[at + 2]>> ELSE <<>>)]

\* win.location.port
Port(win) ==
    LET href == Location(win)
    IN  IF Len(href) >= 5 /\ href[4] = ":" THEN href[5] ELSE ""

\* assertHttpsUrl(urlString, element): whether the assertion holds.
assertHttpsUrl(content) == content.kind = "string" /\ content.chars[1] = "https"

\* What a call returns: a value, or a thrown error.
Value(v) == [threw |-> FALSE, ret |-> v]
Error == [threw |-> TRUE, ret |-> JsUndefined]

getAdsLocalhost(win) ==
    IF mode.urlsLocalDev THEN <<"//", ThirdPartyFrameHost>>
    ELSE <<"http", "://", "ads.localhost", ":",
           (IF Port(win) # "" THEN Port(win) ELSE Port(parent[win]))>>

getSubDomain(rand) == "d-" \o rand

\* A faulty variant: the test override is honoured in every mode.
getDefaultBootstrapBaseUrl_AnyMode(win, opt_srcFileBasename, rand) ==
    LET srcFileBasename ==
            IF Truthy(opt_srcFileBasename) THEN opt_srcFileBasename.chars
            ELSE <<"frame">>
    IN  IF Truthy(overrideBootstrapBaseUrl) THEN overrideBootstrapBaseUrl
        ELSE IF mode.localDev \/ mode.test
        THEN JsString(getAdsLocalhost(win) \o <<"/", "dist.3p", "/">>
                \o (IF mode.minified THEN <<Version, "/">> \o srcFileBasename
                    ELSE <<"current", "/">> \o srcFileBasename \o <<".max">>)
                \o <<".html">>)
        ELSE JsString(<<"https", "://",
                        getSubDomain(rand) \o "." \o ThirdPartyFrameHost,
                        "/", Version, "/">> \o srcFileBasename \o <<".html">>)

\* getDefaultBootstrapBaseUrl(parentWindow, opt_srcFileBasename); rand is
\* what getRandom returns if it is called.
getDefaultBootstrapBaseUrl(win, opt_srcFileBasename, rand) ==
    LET srcFileBasename ==
            IF Truthy(opt_srcFileBasename) THEN opt_srcFileBasename.chars
            ELSE <<"frame">>
    IN  IF mode.localDev \/ mode.test
        THEN IF Truthy(overrideBootstrapBaseUrl) THEN overrideBootstrapBaseUrl
             ELSE JsString(getAdsLocalhost(win) \o <<"/", "dist.3p", "/">>
                    \o (IF mode.minified THEN <<Version, "/">> \o srcFileBasename
                        ELSE <<"current", "/">> \o srcFileBasename \o <<".max">>)
                    \o <<".html">>)
        ELSE JsString(<<"https", "://",
                        getSubDomain(rand) \o "." \o ThirdPartyFrameHost,
                        "/", Version, "/">> \o srcFileBasename \o <<".html">>)

\* A faulty variant: the same-origin assertion without its localhost exemption.
getCustomBootstrapBaseUrl_NoExemption(win, opt_strictForUnitTest) ==
    IF meta[win] = NoMeta THEN Value(JsNull)
    ELSE IF ~assertHttpsUrl(meta[win]) THEN Error
    ELSE LET url == meta[win].chars IN
         IF IndexOf(url, <<"?">>) # -1 THEN Error
         ELSE IF parseUrl(url).origin = parseUrl(Location(win)).origin THEN Error
         ELSE Value(JsString(url \o <<"?", Version>>))

\* getCustomBootstrapBaseUrl(parentWindow, opt_strictForUnitTest)
getCustomBootstrapBaseUrl(win, opt_strictForUnitTest) ==
    IF meta[win] = NoMeta THEN Value(JsNull)
    ELSE IF ~assertHttpsUrl(meta[win]) THEN Error
    ELSE LET url == meta[win].chars
             parsed == parseUrl(url)
         IN  IF IndexOf(url, <<"?">>) # -1 THEN Error
             ELSE IF ~(\/ (parsed.hostname = "localhost" /\ ~opt_strictForUnitTest)
                       \/ parsed.origin # parseUrl(Location(win)).origin)
                  THEN Error
             ELSE Value(JsString(url \o <<"?", Version>>))

\* A faulty variant: the cached value is not consulted.
getBootstrapBaseUrl_NoCache(win, opt_strictForUnitTest, rand) ==
    LET custom == getCustomBootstrapBaseUrl(win, opt_strictForUnitTest)
    IN  IF custom.threw THEN Error
        ELSE IF Truthy(custom.ret) THEN custom
        ELSE Value(getDefaultBootstrapBaseUrl(win, JsUndefined, rand))

\* A faulty variant: the default URL (and with it the test override) comes first.
getBootstrapBaseUrl_DefaultFirst(win, opt_strictForUnitTest, rand) ==
    IF Truthy(bootstrapBaseUrl[win]) THEN Value(bootstrapBaseUrl[win])
    ELSE Value(getDefaultBootstrapBaseUrl(win, JsUndefined, rand))

\* getBootstrapBaseUrl(parentWindow, opt_strictForUnitTest): what it returns.
\* A returned value is also what it leaves in parentWindow.bootstrapBaseUrl.
getBootstrapBaseUrl(win, opt_strictForUnitTest, rand) ==
    IF Truthy(bootstrapBaseUrl[win]) THEN Value(bootstrapBaseUrl[win])
    ELSE LET custom == getCustomBootstrapBaseUrl(win, opt_strictForUnitTest)
         IN  IF custom.threw THEN Error
             ELSE IF Truthy(custom.ret) THEN custom
             ELSE Value(getDefaultBootstrapBaseUrl(win, JsUndefined, rand))

NoResolverCall ==
    [op |-> "none", win |-> NoWindow, strict |-> FALSE, threw |-> FALSE,
     ret |-> JsUndefined, basename |-> "", type |-> "", host |-> "",
     count |-> 0]

ResolverInit ==
    /\ count = [t \in Types |-> 0]
    /\ overrideBootstrapBaseUrl = JsUndefined
    /\ bootstrapBaseUrl = [w \in Windows |-> JsUndefined]
    /\ meta \in {m \in [Windows -> UNION {MetasOf(w) : w \in Windows}] :
                    \A w \in Windows : m[w] \in MetasOf(w)}
    /\ mode \in Modes
    /\ call = NoResolverCall
    /\ parent = [w \in Windows |-> Top]

\* getBootstrapBaseUrl(win, strict), called from outside this file.
GetBootstrapBaseUrl(win, strict, rand) ==
    LET r == getBootstrapBaseUrl(win, strict, rand) IN
    /\ bootstrapBaseUrl' = IF r.threw THEN bootstrapBaseUrl
                           ELSE [bootstrapBaseUrl EXCEPT ![win] = r.ret]
    /\ call' = [NoResolverCall EXCEPT !.op = "getBootstrapBaseUrl", !.win = win,
                    !.strict = strict, !.threw = r.threw, !.ret = r.ret]
    /\ UNCHANGED <<count, overrideBootstrapBaseUrl, meta, mode, notResolver>>

\* preloadBootstrap(window, preconnect): the preconnect hints leave no
\* state in this file.
PreloadBootstrap(win, rand) ==
    LET r == getBootstrapBaseUrl(win, FALSE, rand) IN
    /\ bootstrapBaseUrl' = IF r.threw THEN bootstrapBaseUrl
                           ELSE [bootstrapBaseUrl EXCEPT ![win] = r.ret]
    /\ call' = [NoResolverCall EXCEPT !.op = "preloadBootstrap", !.win = win,
                    !.threw = r.threw, !.ret = r.ret]
    /\ UNCHANGED <<count, overrideBootstrapBaseUrl, meta, mode, notResolver>>

\* getDefaultBootstrapBaseUrl(win, basename), called from outside this file.
GetDefaultBootstrapBaseUrl(win, basename, rand) ==
    /\ call' = [NoResolverCall EXCEPT !.op = "getDefaultBootstrapBaseUrl",
                    !.win = win, !.basename = basename,
                    !.ret = getDefaultBootstrapBaseUrl(
                                win,
                                IF basename = "" THEN JsUndefined
                                ELSE JsString(<<basename>>),
                                rand)]
    /\ UNCHANGED <<count, overrideBootstrapBaseUrl, bootstrapBaseUrl, meta, mode, notResolver>>

SetDefaultBootstrapBaseUrlForTesting(url) ==
    /\ overrideBootstrapBaseUrl' = url
    /\ call' = [NoResolverCall EXCEPT !.op = "setDefaultBootstrapBaseUrlForTesting"]
    /\ UNCHANGED <<count, bootstrapBaseUrl, meta, mode, notResolver>>

ResetBootstrapBaseUrlForTesting(win) ==
    /\ bootstrapBaseUrl' = [bootstrapBaseUrl EXCEPT ![win] = JsUndefined]
    /\ call' = [NoResolverCall EXCEPT !.op = "resetBootstrapBaseUrlForTesting",
                    !.win = win]
    /\ UNCHANGED <<count, overrideBootstrapBaseUrl, meta, mode, notResolver>>

ResetCountForTesting ==
    /\ count' = [t \in Types |-> 0]
    /\ call' = [NoResolverCall EXCEPT !.op = "resetCountForTesting"]
    /\ UNCHANGED <<overrideBootstrapBaseUrl, bootstrapBaseUrl, meta, mode, notResolver>>

\* The page replaces, adds or removes its meta declaration.
SetMeta(win, m) ==
    /\ meta[win] # m
    /\ meta' = [meta EXCEPT ![win] = m]
    /\ call' = [NoResolverCall EXCEPT !.op = "setMeta", !.win = win]
    /\ UNCHANGED <<count, overrideBootstrapBaseUrl, bootstrapBaseUrl, mode, notResolver>>


\* The <amp-ad> elements handed to getIframe: isConnected ("" when the
\* browser has no such property), the type attribute ("" when absent) and
\* the json attribute.
Element(isConnected, type, json) ==
    [isConnected |-> isConnected, type |-> type, json |-> json]
Elements ==
    { Element("true", "a9", "none"),
      Element("", "doubleclick", "valid"),
      Element("true", "", "none"),
      Element("true", "a9", "malformed"),
      Element("false", "a9", "none") }

\* getIframe(parentWindow, parentElement, opt_type): the assertions of
\* getIframe, getFrameAttributes and addDataAndJsonAttributes_ in the order
\* the code makes them, then the counter, then the bootstrap URL.  The
\* attributes of the frame (its sentinel among them) leave no state here.
GetIframe(win, element, opt_type, rand) ==
    LET type == IF opt_type # "" THEN opt_type ELSE element.type
        r == getBootstrapBaseUrl(win, FALSE, rand)
        thrown == [NoResolverCall EXCEPT !.op = "getIframe", !.win = win,
                       !.threw = TRUE, !.type = type]
    IN  IF element.isConnected = "false" \/ type = "" \/ element.json = "malformed"
        THEN /\ call' = thrown
             /\ UNCHANGED <<count, overrideBootstrapBaseUrl, bootstrapBaseUrl,
                            meta, mode, notResolver>>
        ELSE /\ count[type] < MaxCount
             /\ count' = [count EXCEPT ![type] = @ + 1]
             /\ bootstrapBaseUrl' = IF r.threw THEN bootstrapBaseUrl
                                    ELSE [bootstrapBaseUrl EXCEPT ![win] = r.ret]
             /\ call' = IF r.threw THEN thrown
                        ELSE [thrown EXCEPT !.threw = FALSE, !.ret = r.ret,
                                  !.host = parseUrl(r.ret.chars).hostname,
                                  !.count = count[type] + 1]
             /\ UNCHANGED <<overrideBootstrapBaseUrl, meta, mode, notResolver>>

ResolverNext ==
    \/ \E win \in Windows, strict \in BOOLEAN, rand \in Randoms :
          GetBootstrapBaseUrl(win, strict, rand)
    \/ \E win \in Windows, rand \in Randoms : PreloadBootstrap(win, rand)
    \/ \E win \in Windows, basename \in {"", "remote"}, rand \in Randoms :
          GetDefaultBootstrapBaseUrl(win, basename, rand)
    \/ \E url \in Overrides : SetDefaultBootstrapBaseUrlForTesting(url)
    \/ \E win \in Windows : ResetBootstrapBaseUrlForTesting(win)
    \/ \E win \in Windows : \E m \in MetasOf(win) : SetMeta(win, m)

\* The frames of the top page: getIframe and what a test resets between
\* two of its calls.
IframeNext ==
    \/ \E element \in Elements, opt_type \in {"", "a9"}, rand \in Randoms :
          GetIframe(Top, element, opt_type, rand)
    \/ ResetCountForTesting
    \/ ResetBootstrapBaseUrlForTesting(Top)
    \/ \E m \in MetasOf(Top) : SetMeta(Top, m)

(***************************************************************************)
(* The sentinel generator.  Frames are numbered so that a parent precedes  *)
(* its children; a top-level window is its own parent, and the parent of a *)
(* window detached from its frame is null.                                 *)
(***************************************************************************)
Frames == 1..MaxFrames
\* A null win.parent.
Null == 0
Hierarchies ==
    {h \in [Frames -> Frames \cup {Null}] : \A w \in Frames : h[w] <= w}

NoWalk == [pc |-> "idle", parentWindow |-> Null, win |-> Null,
           windowDepth |-> 0, ret |-> <<>>]

SentinelInit ==
    /\ parent \in Hierarchies
    /\ walk = NoWalk

\* A faulty variant: the count starts at one.
GenerateSentinel_FromOne(parentWindow) ==
    /\ walk.pc # "loop"
    /\ walk' = [pc |-> "loop", parentWindow |-> parentWindow, win |-> parentWindow,
                windowDepth |-> 1, ret |-> <<>>]
    /\ UNCHANGED notSentinel

\* let windowDepth = 0; for (let win = parentWindow; ...
GenerateSentinel(parentWindow) ==
    /\ walk.pc # "loop"
    /\ walk' = [pc |-> "loop", parentWindow |-> parentWindow, win |-> parentWindow,
                windowDepth |-> 0, ret |-> <<>>]
    /\ UNCHANGED notSentinel

\* The loop condition: win && win != win.parent
LoopCondition == walk.win # Null /\ walk.win # parent[walk.win]

\* windowDepth++; win = win.parent
LoopBody ==
    /\ walk.pc = "loop"
    /\ LoopCondition
    /\ walk' = [walk EXCEPT !.windowDepth = @ + 1, !.win = parent[walk.win]]
    /\ UNCHANGED notSentinel

\* return String(windowDepth) + '-' + getRandom(parentWindow)
Return(rand) ==
    /\ walk.pc = "loop"
    /\ ~LoopCondition
    /\ walk' = [walk EXCEPT !.pc = "done",
                            !.ret = <<ToString(walk.windowDepth), "-", rand>>]
    /\ UNCHANGED notSentinel

SentinelNext ==
    \/ \E parentWindow \in Frames : GenerateSentinel(parentWindow)
    \/ LoopBody
    \/ \E rand \in Randoms : Return(rand)

(***************************************************************************)
(* The specifications: each part of the file runs with the state of the    *)
(* other parts at rest.                                                    *)
(***************************************************************************)
CodecIdle == wire = JsUndefined /\ sent = NoSent /\ last = NoCall
ResolverIdle ==
    /\ count = [t \in Types |-> 0]
    /\ overrideBootstrapBaseUrl = JsUndefined
    /\ bootstrapBaseUrl = [w \in Windows |-> JsUndefined]
    /\ meta = [w \in Windows |-> NoMeta]
    /\ mode = Mode(FALSE, FALSE, TRUE, FALSE)
    /\ call = NoResolverCall
SentinelIdle == walk = NoWalk

Init == ResolverInit /\ CodecIdle /\ SentinelIdle
Next == ResolverNext
Spec == Init /\ [][Next]_vars

IframeInit == ResolverInit /\ meta[Child] = NoMeta /\ CodecIdle /\ SentinelIdle
IframeSpec == IframeInit /\ [][IframeNext]_vars

CodecStart ==
    CodecInit /\ ResolverIdle /\ SentinelIdle /\ parent = [w \in Windows |-> Top]
CodecSpec == CodecStart /\ [][CodecNext]_vars

SentinelStart == SentinelInit /\ CodecIdle /\ ResolverIdle
\* generateSentinel is synchronous code: once called, it runs on.
SentinelSpec ==
    /\ SentinelStart
    /\ [][SentinelNext]_vars
    /\ WF_vars(LoopBody)
    /\ WF_vars(\E rand \in Randoms : Return(rand))

(***************************************************************************)
(* Properties of the codec, checked under CodecSpec.                       *)
(***************************************************************************)
StartsWithPrefix(v) ==
    /\ v.kind = "string"
    /\ Len(v.chars) >= Len(AMP_MESSAGE_PREFIX)
    /\ SubSeq(v.chars, 1, Len(AMP_MESSAGE_PREFIX)) = AMP_MESSAGE_PREFIX

HasBrace(cs) == \E i \in DOMAIN cs : cs[i] = "{"

\* The fields of the caller's data other than `type` and `sentinel`.
ExtraFields(d) == {i \in DOMAIN d : d[i][1] \notin {KeyType, KeySentinel}}

\* The last call returned a mapping equivalent to the message serialized.
DecodedWhatWasSent ==
    /\ ~last.threw
    /\ last.ret.t = "object"
    /\ HasKey(last.ret.o, KeyType)
    /\ Get(last.ret.o, KeyType) = JStr(sent.type)
    /\ HasKey(last.ret.o, KeySentinel)
    /\ Get(last.ret.o, KeySentinel) = JStr(sent.sentinel)
    /\ \A i \in ExtraFields(sent.data) :
          /\ HasKey(last.ret.o, sent.data[i][1])
          /\ Get(last.ret.o, sent.data[i][1]) = sent.data[i][2]

\* C1: deserializeMessage(serializeMessage(t, s, d)), called without a
\* version token, is a mapping whose type is t, whose sentinel is s and
\* which holds every extra field of d with an equal value.
C1_RoundTrip ==
    (/\ last.op = "deserializeMessage"
     /\ sent.by = "serializeMessage"
     /\ sent.rtvVersion = JsNull) => DecodedWhatWasSent

\* C1's case: a message whose data has extra fields of its own and whose
\* sentinel needs escaping has been serialized and decoded.
C1_Witness ==
    /\ last.op = "deserializeMessage"
    /\ sent.by = "serializeMessage"
    /\ sent.rtvVersion = JsNull
    /\ Len(sent.data) = 2
    /\ sent.sentinel = <<"1", "\"">>
    /\ Len(last.ret.o) = 3

\* C4: isAmpMessage is true exactly of the strings that start with 'amp-'
\* at position 0, and deserializeMessage returns null for every other input.
C4_ForeignTraffic ==
    /\ last.op = "isAmpMessage" => (last.bool <=> StartsWithPrefix(wire))
    /\ (last.op = "deserializeMessage" /\ ~StartsWithPrefix(wire)) =>
          (~last.threw /\ last.ret = JNull)

\* C4's case: a string that holds the prefix, but not at position 0, has
\* been classified as foreign.
C4_Witness ==
    /\ last.op = "isAmpMessage"
    /\ wire = JsString(<<"a", "a", "m", "p", "-", "{", "}">>)
    /\ ~last.bool

\* C5: deserializeMessage never throws; for a tagged string with no '{', or
\* whose text from the first '{' is not valid JSON, it logs and returns null.
C5_MalformedPayload ==
    last.op = "deserializeMessage" =>
        /\ ~last.threw
        /\ (/\ StartsWithPrefix(wire)
            /\ \/ ~HasBrace(wire.chars)
               \/ JSONParse(Substr(wire.chars, IndexOf(wire.chars, <<"{">>))).threw)
           => (last.logged /\ last.ret = JNull)

\* C5's case: a serialized message that lost its end has been decoded.
C5_Witness ==
    /\ last.op = "deserializeMessage"
    /\ sent.by = "truncated"
    /\ HasBrace(wire.chars)
    /\ last.logged
    /\ last.ret = JNull

\* C6 as stated: whatever the version token, a serialized message decodes
\* to the message that was serialized.
C6_AnyVersionToken ==
    (/\ last.op = "deserializeMessage"
     /\ sent.by = "serializeMessage") => DecodedWhatWasSent

\* C6, amended: a message serialized with a version token string that
\* holds no '{' decodes to the message that was serialized, the version
\* token being discarded.
C6_BraceFreeVersionToken ==
    (/\ last.op = "deserializeMessage"
     /\ sent.by = "serializeMessage"
     /\ sent.rtvVersion.kind = "string"
     /\ ~HasBrace(sent.rtvVersion.chars)) => DecodedWhatWasSent

\* C6's case: a message carrying the version token '01' has been decoded.
C6_Witness ==
    /\ last.op = "deserializeMessage"
    /\ sent.by = "serializeMessage"
    /\ sent.rtvVersion = JsString(<<"0", "1">>)
    /\ last.ret.t = "object"

(***************************************************************************)
(* Properties of the resolver, checked under Spec.                         *)
(***************************************************************************)
Resolved(w) == call.op \in {"getBootstrapBaseUrl", "preloadBootstrap"} /\ call.win = w
WithVersion(url) == JsString(url \o <<"?", Version>>)
TestContext == mode.localDev \/ mode.test

\* The default URL of production mode, for a basename and a random draw.
ProductionUrl(basename, rand) ==
    JsString(<<"https", "://", "d-" \o rand \o "." \o ThirdPartyFrameHost, "/",
               Version, "/", basename, ".html">>)
\* The default URL of a local server, for a basename.
LocalUrls(basename) ==
    {JsString(base \o <<"/", "dist.3p", "/">> \o tail) :
        base \in {<<"//", ThirdPartyFrameHost>>,
                  <<"http", "://", "ads.localhost", ":", "">>,
                  <<"http", "://", "ads.localhost", ":", "8000">>},
        tail \in {<<Version, "/", basename, ".html">>,
                  <<"current", "/", basename, ".max", ".html">>}}

\* C2: once a window's bootstrap URL is cached, every call on that window
\* returns the cached string and leaves it cached, whatever the draw, the
\* override, the meta declaration or the strict argument; a successful call
\* caches what it returns; only resetBootstrapBaseUrlForTesting on that
\* window empties the cache.
C2_Memoized ==
    [][\A w \in Windows :
        /\ (Truthy(bootstrapBaseUrl[w]) /\ Resolved(w)') =>
              (~call'.threw /\ call'.ret = bootstrapBaseUrl[w])
        /\ (Resolved(w)' /\ ~call'.threw) =>
              (Truthy(call'.ret) /\ bootstrapBaseUrl'[w] = call'.ret)
        /\ bootstrapBaseUrl'[w] # bootstrapBaseUrl[w] =>
              \/ ~Truthy(bootstrapBaseUrl[w]) /\ Resolved(w)'
              \/ /\ call'.op = "resetBootstrapBaseUrlForTesting" /\ call'.win = w
                 /\ bootstrapBaseUrl'[w] = JsUndefined
      ]_vars

\* C2's case: a strict call on the top window returned the custom URL that
\* was declared when the URL was first resolved, although the declaration
\* is gone and an override is set.
C2_Witness ==
    /\ call.op = "getBootstrapBaseUrl"
    /\ call.win = Top
    /\ call.strict
    /\ meta[Top] = NoMeta
    /\ Truthy(overrideBootstrapBaseUrl)
    /\ call.ret = WithVersion(<<"https", "://", "cdn.example", "/", "b.html">>)

HasQuestionMark(url) == \E i \in DOMAIN url : url[i] = "?"
SameOrigin(url, w) == parseUrl(url).origin = parseUrl(Location(w)).origin
Exempt(url, strict) == parseUrl(url).hostname = "localhost" /\ ~strict

\* C3: when the URL of a window is computed and the document declares a
\* custom URL, the call throws if the URL holds a '?', and throws if its
\* origin is the document's unless its host is localhost and strict mode
\* is off; a call that does not throw returns the declared URL (with the
\* version appended), and an https URL to which neither error applies is
\* returned.
C3_CustomUrlChecks ==
    [][\A w \in Windows :
        (/\ call'.op = "getBootstrapBaseUrl"
         /\ call'.win = w
         /\ ~Truthy(bootstrapBaseUrl[w])
         /\ meta[w] # NoMeta) =>
            LET url == meta[w].chars
                refused == \/ HasQuestionMark(url)
                           \/ SameOrigin(url, w) /\ ~Exempt(url, call'.strict)
            IN  /\ refused => call'.threw
                /\ ~call'.threw => (~refused /\ call'.ret = WithVersion(url))
                /\ (~refused /\ url[1] = "https") => ~call'.threw
      ]_vars

\* C3's case: the page on localhost declared a URL of its own origin, which
\* a strict call refused.
C3_Witness ==
    /\ call.op = "getBootstrapBaseUrl"
    /\ call.win = Child
    /\ call.strict
    /\ call.threw
    /\ meta[Child] # NoMeta
    /\ SameOrigin(meta[Child].chars, Child)

\* C8 as stated: a computed URL is the first that applies of the cached
\* value, the test override, the declared custom URL and the default.
C8_OverrideBeforeCustom ==
    [][\A w \in Windows :
        (Resolved(w)' /\ ~call'.threw) =>
            IF Truthy(bootstrapBaseUrl[w]) THEN call'.ret = bootstrapBaseUrl[w]
            ELSE IF TestContext /\ Truthy(overrideBootstrapBaseUrl)
                 THEN call'.ret = overrideBootstrapBaseUrl
            ELSE IF meta[w] # NoMeta THEN call'.ret = WithVersion(meta[w].chars)
            ELSE call'.ret \in LocalUrls("frame")
                    \cup {ProductionUrl("frame", r) : r \in Randoms}
      ]_vars

\* C8, amended: a computed URL is the first that applies of the cached
\* value, the declared custom URL (the call throws if it is invalid), in
\* localDev or test mode the test override, and the computed default.
C8_CustomBeforeOverride ==
    [][\A w \in Windows :
        /\ (Resolved(w)' /\ ~call'.threw) =>
            IF Truthy(bootstrapBaseUrl[w]) THEN call'.ret = bootstrapBaseUrl[w]
            ELSE IF meta[w] # NoMeta THEN call'.ret = WithVersion(meta[w].chars)
            ELSE IF TestContext /\ Truthy(overrideBootstrapBaseUrl)
                 THEN call'.ret = overrideBootstrapBaseUrl
            ELSE IF TestContext THEN call'.ret \in LocalUrls("frame")
            ELSE call'.ret \in {ProductionUrl("frame", r) : r \in Randoms}
        /\ (Resolved(w)' /\ call'.threw) =>
              (~Truthy(bootstrapBaseUrl[w]) /\ meta[w] # NoMeta)
      ]_vars

\* C8's case: in test mode, with an override set and a valid custom URL
\* declared, the call returned the custom URL.
C8_Witness ==
    /\ call.op = "getBootstrapBaseUrl"
    /\ call.win = Top
    /\ mode.test
    /\ Truthy(overrideBootstrapBaseUrl)
    /\ meta[Top] = JsString(<<"https", "://", "cdn.example", "/", "b.html">>)
    /\ call.ret = WithVersion(<<"https", "://", "cdn.example", "/", "b.html">>)

\* C9: in production mode getDefaultBootstrapBaseUrl returns
\* https://d-<random>.<thirdPartyFrameHost>/<version>/<basename>.html and
\* never the test override; in localDev or test mode with an override set
\* it returns the override, whatever the basename.
C9_OverrideOnlyInTests ==
    call.op = "getDefaultBootstrapBaseUrl" =>
        LET basename == IF call.basename = "" THEN "frame" ELSE call.basename
        IN  /\ ~TestContext =>
                /\ call.ret \in {ProductionUrl(basename, r) : r \in Randoms}
                /\ call.ret # overrideBootstrapBaseUrl
            /\ (TestContext /\ Truthy(overrideBootstrapBaseUrl)) =>
                call.ret = overrideBootstrapBaseUrl

\* C9's case: in production mode, with an override set, the default URL
\* of a named basename was asked for.
C9_Witness ==
    /\ call.op = "getDefaultBootstrapBaseUrl"
    /\ ~TestContext
    /\ Truthy(overrideBootstrapBaseUrl)
    /\ call.basename = "remote"
    /\ call.ret = ProductionUrl("remote", "42")

(***************************************************************************)
(* A property of getIframe, checked under IframeSpec.                      *)
(***************************************************************************)
\* C10 as stated: a getIframe call that throws leaves the cached URL and
\* the frame counters as they were.
C10_NoPartialState ==
    [][(call'.op = "getIframe" /\ call'.threw) =>
            (count' = count /\ bootstrapBaseUrl' = bootstrapBaseUrl)
      ]_vars

(***************************************************************************)
(* A property of generateSentinel, checked under SentinelSpec.             *)
(***************************************************************************)
RECURSIVE ReachesTop(_)
ReachesTop(w) ==
    IF w = Null THEN FALSE
    ELSE IF parent[w] = w THEN TRUE
    ELSE ReachesTop(parent[w])
RECURSIVE StepsToTop(_)
StepsToTop(w) == IF parent[w] = w THEN 0 ELSE 1 + StepsToTop(parent[w])

\* C7: generateSentinel returns '<depth>-<random>', depth being the number
\* of parent steps from the window to its top-level frame, and every call
\* returns.
C7_Depth ==
    /\ [](  (walk.pc = "done" /\ ReachesTop(walk.parentWindow)) =>
              /\ walk.windowDepth = StepsToTop(walk.parentWindow)
              /\ \E r \in Randoms :
                    walk.ret = <<ToString(StepsToTop(walk.parentWindow)), "-", r>>)
    /\ (walk.pc = "loop" ~> walk.pc = "done")

\* C7's case: a window nested three levels deep got a sentinel of depth 3.
C7_Witness ==
    /\ walk.pc = "done"
    /\ walk.parentWindow = 4
    /\ parent = (1 :> 1) @@ (2 :> 1) @@ (3 :> 2) @@ (4 :> 3)
    /\ walk.ret = <<"3", "-", "42">>

====
